---- MODULE Spec2Model ----
(***************************************************************************)
(* Model of the WPS check-in script: script/wps/main.py (WPSTasks, main)   *)
(* and script/wps/api.py (WPSAPI, WPSEncryption).                          *)
(*                                                                         *)
(* Python strings that are assembled by f-strings are sequences of         *)
(* fragments (concatenation is \o); the Chinese literals of the source     *)
(* are written in ASCII, the original is quoted next to each.              *)
(***************************************************************************)
EXTENDS Integers, Sequences, FiniteSets, TLC

VARIABLES
    pc,               \* position of main(): main, run, loop, sign_in, summary, notify, exit;
                      \* of a direct call of a static method: call, returned
    config,           \* the configuration file: [file |-> missing|badjson|ok, data |-> its JSON object]
    accounts,         \* WPSTasks.accounts
    account_results,  \* WPSTasks.account_results
    idx,              \* position of the for loop of WPSTasks.run (1-based)
    st,               \* position of WPSAPI.sign_in within one call
    public_key,       \* public_key_base64 of the running sign_in
    crypto_result,    \* crypto_result of the running sign_in
    sign_result,      \* value returned (or exception raised) by sign_in
    response,         \* what the last HTTP call of the running sign_in returned
    keygen,           \* number of calls of generate_aes_key so far
    log,              \* calls made so far, in order: WPSAPI(), sign_in(), GET, key_ok,
                      \* generate_aes_key, POST, notify
    summary,          \* counts computed by _print_summary
    exitCode,         \* exit code of the process, -1 while it runs
    clock,            \* time.time() during the run, as [hi, lo]: hi * 10^9 + lo seconds
    api,              \* the WPSAPI instance of process_account: base_headers, cookies
    probe             \* a direct call of a static method: [fn, arg, out]

vars == <<pc, config, accounts, account_results, idx, st, public_key,
          crypto_result, sign_result, response, keygen, log, summary, exitCode,
          clock, api, probe>>

----------------------------------------------------------------------------
(* Bounds *)

MaxAccounts == 2
MaxKeyLen == 34       \* largest length asked of generate_aes_key in a direct call
MaxSeed == 2          \* number of outcomes of the random choices
MaxCookieLen == 5     \* longest cookie string parsed in a direct call

----------------------------------------------------------------------------
(* Python values *)

\* dict.get(k, default)
Get(d, k, default) == IF k \in DOMAIN d THEN d[k] ELSE default

\* a JSON value of string type, and one of another type (object, list, number)
JStr(s) == [t |-> "str", v |-> s]
JObj(s) == [t |-> "obj", v |-> s]

\* str(int) for the HTTP status codes in use
StatusStr == (200 :> "200") @@ (403 :> "403") @@ (500 :> "500")

\* str(n) for the small counts of the report
IntStr(n) == <<"0", "1", "2", "3", "4", "5", "6", "7", "8", "9">>[n + 1]

\* True when string m occurs in string s
Contains(s, m) ==
    \E i \in 1..(Len(s) - Len(m) + 1) : SubSeq(s, i, i + Len(m) - 1) = m

NoResult == [none |-> TRUE]
EmptyDict == "{}"

\* dict assignment d[k] = v
Put(d, k, v) == [x \in DOMAIN d \cup {k} |-> IF x = k THEN v ELSE d[x]]

\* strings whose characters matter are sequences of one-character strings
Lower == <<"a", "b", "c", "d", "e", "f", "g", "h", "i", "j", "k", "l", "m",
           "n", "o", "p", "q", "r", "s", "t", "u", "v", "w", "x", "y", "z">>
Digits == <<"0", "1", "2", "3", "4", "5", "6", "7", "8", "9">>

\* str(n) of a natural number
RECURSIVE DecStr(_)
DecStr(n) ==
    IF n < 10 THEN <<Digits[n + 1]>>
    ELSE DecStr(n \div 10) \o <<Digits[(n % 10) + 1]>>

\* str(int(time.time())) of a clock [hi, lo], that is of hi * 10^9 + lo
TimeStr(t) ==
    IF t.hi = 0 THEN DecStr(t.lo)
    ELSE LET low == DecStr(t.lo) IN
         DecStr(t.hi) \o [i \in 1..(9 - Len(low)) |-> "0"] \o low

\* the slice s[:n]
Take(s, n) == SubSeq(s, 1, IF n < Len(s) THEN n ELSE Len(s))

\* s.find(sep) + 1: the first position where sep occurs in s, 0 when it does not
Find(s, sep) ==
    LET P == { i \in 1..(Len(s) - Len(sep) + 1) : SubSeq(s, i, i + Len(sep) - 1) = sep }
    IN  IF P = {} THEN 0 ELSE CHOOSE i \in P : \A j \in P : i <= j

\* s.split(sep)
RECURSIVE Split(_, _)
Split(s, sep) ==
    LET i == Find(s, sep) IN
    IF i = 0 THEN <<s>>
    ELSE <<SubSeq(s, 1, i - 1)>> \o Split(SubSeq(s, i + Len(sep), Len(s)), sep)

\* an exception: its class as seen by the except clauses, and str(e)
RequestException(text) == [cls |-> "RequestException", text |-> <<text>>]
OtherException(text) == [cls |-> "Exception", text |-> <<text>>]

----------------------------------------------------------------------------
(* The configuration file *)

\* account records of config/token.json
AccountDicts ==
    { [account_name |-> "alice", user_id |-> 123, cookies |-> JStr("sid=abc")],
      [user_id |-> 123, cookies |-> JStr("sid=abc")],
      [account_name |-> "bob", cookies |-> JStr("sid=abc")],
      [account_name |-> "bob", user_id |-> 0, cookies |-> JStr("sid=abc")],
      [account_name |-> "carol", user_id |-> 123],
      [account_name |-> "carol", user_id |-> 123, cookies |-> JStr("")],
      [account_name |-> "dave", user_id |-> 123, cookies |-> JObj("{sid:abc}")] }

\* an element of wps.accounts: a JSON object, or another JSON value (null)
AccountEntries ==
    { [type |-> "dict", d |-> a] : a \in AccountDicts } \cup { [type |-> "null", d |-> <<>>] }

AccountLists == UNION { [1..n -> AccountEntries] : n \in 0..MaxAccounts }

\* config/token.json: absent, not JSON, or a JSON object without "wps",
\* with a "wps" object without "accounts", or with a list of accounts
Configs ==
    { [file |-> "missing", data |-> <<>>], [file |-> "badjson", data |-> <<>>] }
    \cup { [file |-> "ok", data |-> <<>>], [file |-> "ok", data |-> [wps |-> <<>>]] }
    \cup { [file |-> "ok", data |-> [wps |-> [accounts |-> l]]] : l \in AccountLists }

\* the characters of the cookie strings of AccountDicts
CookieText(v) ==
    IF v = "sid=abc" THEN <<"s", "i", "d", "=", "a", "b", "c">> ELSE <<>>

\* time.time() at the moment of the run: 2001-09-09, 2025-11-05, 2286-11-20
Clocks ==
    { [hi |-> 0, lo |-> 999999999], [hi |-> 1, lo |-> 762300000], [hi |-> 10, lo |-> 0] }

\* the clocks of a run of main: today's and a later one
RunClocks == { t \in Clocks : t.hi > 0 }

----------------------------------------------------------------------------
(* The remote service *)

\* bodies of the key endpoint
KeyBodies ==
    { [json |-> "invalid", d |-> <<>>],
      [json |-> "list", d |-> <<>>],
      [json |-> "dict", d |-> [result |-> "ok", data |-> "GOODKEY"]],
      [json |-> "dict", d |-> [result |-> "ok", data |-> "BADB64"]],
      [json |-> "dict", d |-> [result |-> "ok", data |-> "NOTPEM"]],
      [json |-> "dict", d |-> [result |-> "ok", data |-> "SMALLKEY"]],
      [json |-> "dict", d |-> [result |-> "ok"]],
      [json |-> "dict", d |-> [result |-> "fail", msg |-> <<"invalid cookie">>]],
      [json |-> "dict", d |-> [result |-> "fail", data |-> "GOODKEY"]] }

\* bodies of the sign-in endpoint
SignBodies ==
    { [json |-> "invalid", d |-> <<>>],
      [json |-> "list", d |-> <<>>],
      [json |-> "dict", d |-> [result |-> "ok", data |-> "{points:5}"]],
      [json |-> "dict", d |-> [result |-> "ok"]],
      [json |-> "dict", d |-> [result |-> "fail", msg |-> <<"already signed">>]],
      [json |-> "dict", d |-> [data |-> "{points:5}"]] }

\* what requests.get / requests.post can do: raise, or return a response
Outcomes(bodies) ==
    { [kind |-> "raise", status |-> 0, body |-> [json |-> "invalid", d |-> <<>>]] }
    \cup { [kind |-> "response", status |-> 200, body |-> b] : b \in bodies }
    \cup { [kind |-> "response", status |-> s, body |-> b] :
             s \in {403, 500},
             b \in { c \in bodies : c.json = "dict" /\ "result" \in DOMAIN c.d
                                    /\ ("msg" \in DOMAIN c.d \/ c.d.result = "ok")
                                    /\ Get(c.d, "data", "GOODKEY") \in {"GOODKEY", "{points:5}"} } }

----------------------------------------------------------------------------
(* api.py: WPSEncryption and WPSAPI *)

Return(v) == [raised |-> FALSE, val |-> v]
Raise(e) == [raised |-> TRUE, e |-> e]

\* response.json(): requests raises its own JSONDecodeError (a
\* RequestException) in recent versions and a plain ValueError in older ones
JsonError(isRequestExc) ==
    IF isRequestExc THEN RequestException("JSONDecodeError")
                    ELSE OtherException("JSONDecodeError")

\* the try block of get_encrypt_key, given what requests.get does
GetEncryptKeyTry(o, isRequestExc) ==
    IF o.kind = "raise" THEN Raise(RequestException("Timeout"))
    ELSE IF o.status >= 400 THEN Raise(RequestException("HTTPError"))   \* raise_for_status
    ELSE IF o.body.json = "invalid" THEN Raise(JsonError(isRequestExc))
    ELSE IF o.body.json = "list" THEN Raise(OtherException("AttributeError"))
    ELSE LET result == o.body.d IN
         IF Get(result, "result", "None") = "ok" /\ "data" \in DOMAIN result
         THEN Return([success |-> TRUE, public_key |-> result.data])
         ELSE Return([success |-> FALSE,
                      error |-> Get(result, "msg", <<"unknown error">>)])   \* '未知错误'

\* the except clauses of get_encrypt_key
GetEncryptKeyExcept(e) ==
    IF e.cls = "RequestException"
    THEN [success |-> FALSE, error |-> <<"network request failed: ">> \o e.text]  \* "网络请求失败: "
    ELSE [success |-> FALSE, error |-> <<"unknown error: ">> \o e.text]           \* "未知错误: "

get_encrypt_key(o, isRequestExc) ==
    LET r == GetEncryptKeyTry(o, isRequestExc) IN
    IF r.raised THEN GetEncryptKeyExcept(r.e) ELSE r.val

\* base64.b64decode(public_key_base64).decode('utf-8')
B64DecodeOk(k) == k # "BADB64"
\* RSA.import_key(public_key_pem)
ImportKeyOk(k) == k \notin {"BADB64", "NOTPEM"}
\* PKCS1_v1_5 encrypt: the plaintext must fit the modulus
RsaFits(k) == k # "SMALLKEY"

\* random.choice(chars) for the i-th character, in the seed-th outcome of
\* the generator; chars = string.ascii_lowercase + string.digits
RandomChoice(seed, i) ==
    LET chars == Lower \o Digits IN chars[((seed * 7 + i * 11) % Len(chars)) + 1]

\* generate_aes_key(length) at time t
generate_aes_key(length, t, seed) ==
    LET n == IF length - 10 > 0 THEN length - 10 ELSE 0          \* range(length - 10)
        random_part == [i \in 1..n |-> RandomChoice(seed, i)]
        timestamp == TimeStr(t)
    IN  random_part \o timestamp

\* an aes_encrypt that cuts a long key down to 32 characters
aes_encrypt_Truncate(plain_text, aes_key) ==
    LET missing == 32 - Len(aes_key)
        key_padded == Take(aes_key \o [i \in 1..(IF missing > 0 THEN missing ELSE 0) |-> "NUL"], 32)
        iv == Take(aes_key, 16)
    IN  IF Len(key_padded) \notin {16, 24, 32}
        THEN Raise(OtherException("ValueError: Incorrect AES key length"))
        ELSE IF Len(iv) # 16
        THEN Raise(OtherException("ValueError: Incorrect IV length"))
        ELSE Return([alg |-> "AES-CBC", key |-> key_padded, iv |-> iv, plain |-> plain_text])

\* an aes_encrypt that takes the IV from the end of the key
aes_encrypt_IvFromTail(plain_text, aes_key) ==
    LET missing == 32 - Len(aes_key)
        key_padded == aes_key \o [i \in 1..(IF missing > 0 THEN missing ELSE 0) |-> "NUL"]
        iv == SubSeq(aes_key, (IF Len(aes_key) > 16 THEN Len(aes_key) - 15 ELSE 1), Len(aes_key))
    IN  IF Len(key_padded) \notin {16, 24, 32}
        THEN Raise(OtherException("ValueError: Incorrect AES key length"))
        ELSE IF Len(iv) # 16
        THEN Raise(OtherException("ValueError: Incorrect IV length"))
        ELSE Return([alg |-> "AES-CBC", key |-> key_padded, iv |-> iv, plain |-> plain_text])

\* aes_encrypt: the ciphertext is kept as the key, IV and plaintext it is made of
aes_encrypt(plain_text, aes_key) ==
    LET missing == 32 - Len(aes_key)
        key_padded == aes_key \o [i \in 1..(IF missing > 0 THEN missing ELSE 0) |-> "NUL"]
        iv == Take(aes_key, 16)                                   \* aes_key[:16]
    IN  IF Len(key_padded) \notin {16, 24, 32}                    \* AES.new
        THEN Raise(OtherException("ValueError: Incorrect AES key length"))
        ELSE IF Len(iv) # 16
        THEN Raise(OtherException("ValueError: Incorrect IV length"))
        ELSE Return([alg |-> "AES-CBC", key |-> key_padded, iv |-> iv, plain |-> plain_text])

rsa_encrypt(plain_text, public_key_pem) ==
    IF ~ImportKeyOk(public_key_pem) THEN Raise(OtherException("ValueError: RSA key format"))
    ELSE IF ~RsaFits(public_key_pem) THEN Raise(OtherException("ValueError: Plaintext is too long"))
    ELSE Return([alg |-> "RSA", pub |-> public_key_pem, plain |-> plain_text])

\* a generate_crypto_data that keeps the key of the first call for later calls
generate_crypto_data_CachedKey(public_key_base64, user_id, n, t) ==
    IF ~B64DecodeOk(public_key_base64)
    THEN [calls |-> 0, key |-> <<>>, r |-> Raise(OtherException("binascii.Error"))]
    ELSE LET cached == n > 0
             aes_key == generate_aes_key(32, t, 1)
             plain_data == [user_id |-> user_id, platform |-> 64]
             encrypt_data == aes_encrypt(plain_data, aes_key)
             token == rsa_encrypt(aes_key, public_key_base64)
             calls == IF cached THEN 0 ELSE 1
         IN  IF encrypt_data.raised THEN [calls |-> calls, key |-> aes_key, r |-> encrypt_data]
             ELSE IF token.raised THEN [calls |-> calls, key |-> aes_key, r |-> token]
             ELSE [calls |-> calls, key |-> aes_key,
                   r |-> Return([extra |-> encrypt_data.val, token |-> token.val,
                                 aesKey |-> aes_key])]

\* generate_crypto_data at time t, after n calls of generate_aes_key in this
\* run; calls is the number of generate_aes_key calls it made and key the key
\* that call returned
generate_crypto_data(public_key_base64, user_id, n, t) ==
    IF ~B64DecodeOk(public_key_base64)
    THEN [calls |-> 0, key |-> <<>>, r |-> Raise(OtherException("binascii.Error"))]
    ELSE LET aes_key == generate_aes_key(32, t, n + 1)
             plain_data == [user_id |-> user_id, platform |-> 64]
             encrypt_data == aes_encrypt(plain_data, aes_key)
             token == rsa_encrypt(aes_key, public_key_base64)
         IN  IF encrypt_data.raised THEN [calls |-> 1, key |-> aes_key, r |-> encrypt_data]
             ELSE IF token.raised THEN [calls |-> 1, key |-> aes_key, r |-> token]
             ELSE [calls |-> 1, key |-> aes_key,
                   r |-> Return([extra |-> encrypt_data.val, token |-> token.val,
                                 aesKey |-> aes_key])]

\* a step 6 that reads the body without testing status_code
SignInResponse_NoStatusCheck(o, isRequestExc) ==
    IF o.kind = "raise" THEN Raise(RequestException("Timeout"))
    ELSE IF o.body.json = "invalid" THEN Raise(JsonError(isRequestExc))
    ELSE IF o.body.json = "list" THEN Raise(OtherException("AttributeError"))
    ELSE LET resp_data == o.body.d IN
         IF Get(resp_data, "result", "None") = "ok"
         THEN Return([success |-> TRUE, data |-> Get(resp_data, "data", EmptyDict)])
         ELSE Return([success |-> FALSE,
                      error |-> Get(resp_data, "msg", <<"unknown error">>)])

\* step 6 of sign_in: what the try block does with the outcome of requests.post
SignInResponse(o, isRequestExc) ==
    IF o.kind = "raise" THEN Raise(RequestException("Timeout"))
    ELSE IF o.status = 200
    THEN IF o.body.json = "invalid" THEN Raise(JsonError(isRequestExc))
         ELSE IF o.body.json = "list" THEN Raise(OtherException("AttributeError"))
         ELSE LET resp_data == o.body.d IN
              IF Get(resp_data, "result", "None") = "ok"
              THEN Return([success |-> TRUE, data |-> Get(resp_data, "data", EmptyDict)])
              ELSE Return([success |-> FALSE,
                           error |-> Get(resp_data, "msg", <<"unknown error">>)])
    ELSE Return([success |-> FALSE, error |-> <<"HTTP ", StatusStr[o.status]>>])

\* a sign_in that catches RequestException only
SignInExcept_OnlyRequests(e) ==
    IF e.cls = "RequestException"
    THEN Return([success |-> FALSE, error |-> <<"network request failed: ">> \o e.text])
    ELSE Raise(e)

\* the loop of _parse_cookies over the items of the split
RECURSIVE ParseItems(_, _)
ParseItems(items, cookies) ==
    IF items = <<>> THEN cookies
    ELSE LET item == Head(items)
             i == Find(item, <<"=">>)                             \* '=' in item
         IN  IF i > 0
             THEN ParseItems(Tail(items),                         \* item.split('=', 1)
                             Put(cookies, SubSeq(item, 1, i - 1),
                                          SubSeq(item, i + 1, Len(item))))
             ELSE ParseItems(Tail(items), cookies)

\* a _parse_cookies that splits on ";" alone
parse_cookies_SemicolonOnly(cookie_str) ==
    Return(ParseItems(Split(cookie_str, <<";">>), <<>>))

\* _parse_cookies
parse_cookies(cookie_str) == Return(ParseItems(Split(cookie_str, <<";", " ">>), <<>>))

\* WPSAPI.__init__: the fields of the client that the requests read
WPSAPI(cookies, user_agent) ==
    [cookies |-> parse_cookies(cookies).val,
     base_headers |-> ("User-Agent" :> (IF user_agent = "" THEN "Mozilla/5.0" ELSE user_agent))
                      @@ ("Content-Type" :> "application/json")
                      @@ ("origin" :> "https://personal-act.wps.cn")]

\* the except clauses of sign_in
SignInExcept(e) ==
    IF e.cls = "RequestException"
    THEN Return([success |-> FALSE, error |-> <<"network request failed: ">> \o e.text])
    ELSE Return([success |-> FALSE, error |-> <<"unknown error: ">> \o e.text])

\* a sign_in that drops the reason of a failed key fetch
KeyFetchFailure_NoReason(key_result) ==
    [success |-> FALSE, error |-> <<"get public key failed">>]

\* the value sign_in returns for a failed key fetch
KeyFetchFailure(key_result) ==
    [success |-> FALSE, error |-> <<"get public key failed: ">> \o key_result.error]  \* "获取公钥失败: "

\* a sign_in that writes the token into base_headers itself, without the copy
PostHeaders_NoCopy(client, token) ==
    [headers |-> Put(client.base_headers, "token", token),
     client |-> [client EXCEPT !.base_headers = Put(client.base_headers, "token", token)]]

\* sign_in step 3: headers = self.base_headers.copy(); headers['token'] = token;
\* the headers of the POST, and the client after the two statements
PostHeaders(client, token) ==
    [headers |-> Put(client.base_headers, "token", token),
     client |-> client]

\* sign_in as a whole on a given client: the requests it sends, and the client
\* after the call; ko is the outcome of its GET
SignInRequests(client, user_id, ko, kExc, n, t) ==
    LET get == [method |-> "GET", headers |-> client.base_headers, cookies |-> client.cookies]
        key_result == get_encrypt_key(ko, kExc)
    IN  IF ~key_result.success THEN [client |-> client, sent |-> <<get>>]
        ELSE LET g == generate_crypto_data(key_result.public_key, user_id, n, t) IN
             IF g.r.raised THEN [client |-> client, sent |-> <<get>>]
             ELSE LET h == PostHeaders(client, g.r.val.token) IN
                  [client |-> h.client,
                   sent |-> <<get, [method |-> "POST", headers |-> h.headers,
                                    cookies |-> h.client.cookies]>>]

\* sign_in as a whole: what it returns for the outcome ko of its GET and the
\* outcome po of its POST, at time t, after n calls of generate_aes_key
sign_in(user_id, ko, kExc, po, pExc, n, t) ==
    LET key_result == get_encrypt_key(ko, kExc) IN
    IF ~key_result.success THEN Return(KeyFetchFailure(key_result))
    ELSE LET g == generate_crypto_data(key_result.public_key, user_id, n, t) IN
         IF g.r.raised THEN SignInExcept(g.r.e)
         ELSE LET r == SignInResponse(po, pExc) IN
              IF r.raised THEN SignInExcept(r.e) ELSE r

----------------------------------------------------------------------------
(* main.py: WPSTasks *)

\* log entries
Event(ev, acct, info) == [ev |-> ev, acct |-> acct, info |-> info]

\* `not user_id`, `not cookies`
NoUserId(d) == "user_id" \notin DOMAIN d \/ d.user_id = 0
NoCookies(d) == "cookies" \notin DOMAIN d \/ d.cookies = JStr("")

AccountName(d) == Get(d, "account_name", "unnamed account")   \* '未命名账号'

NewResult(name) ==
    [account_name |-> name, success |-> FALSE, message |-> <<>>, sign_info |-> EmptyDict]

\* WPSAPI.__init__ -> _parse_cookies: cookie_str.split needs a string
ParseCookiesOk(cookies) == cookies.t = "str"

\* the except clause of process_account
ProcessAccountExcept(result, e) ==
    [result EXCEPT !.message = <<"exception while processing account: ">> \o e.text]  \* "处理账号时发生异常: "

\* a process_account without the test of cookies
ProcessAccountEnter_NoCookieCheck(entry) ==
    IF entry.type # "dict"
    THEN [act |-> "raise", result |-> NoResult]
    ELSE LET d == entry.d
             result == NewResult(AccountName(d))
         IN  IF NoUserId(d)
             THEN [act |-> "return",
                   result |-> [result EXCEPT !.message = <<"account config lacks user_id, skip sign-in">>]]
             ELSE IF ~ParseCookiesOk(Get(d, "cookies", JStr("")))
             THEN [act |-> "return",
                   result |-> ProcessAccountExcept(result, OtherException("AttributeError"))]
             ELSE [act |-> "call", result |-> result]

\* process_account up to the call of api.sign_in:
\* "raise" (the exception leaves process_account), "return" or "call"
ProcessAccountEnter(entry) ==
    IF entry.type # "dict"
    THEN [act |-> "raise", result |-> NoResult]      \* account_info.get, before the try
    ELSE LET d == entry.d
             result == NewResult(AccountName(d))
         IN  IF NoUserId(d)
             THEN [act |-> "return",
                   result |-> [result EXCEPT !.message = <<"account config lacks user_id, skip sign-in">>]]
             ELSE IF NoCookies(d)
             THEN [act |-> "return",
                   result |-> [result EXCEPT !.message = <<"account config lacks cookies">>]]
             ELSE IF ~ParseCookiesOk(d.cookies)
             THEN [act |-> "return",
                   result |-> ProcessAccountExcept(result, OtherException("AttributeError"))]
             ELSE [act |-> "call", result |-> result]

\* a process_account that does not copy the data of a successful sign-in
ProcessAccountLeave_DropsData(entry, sr) ==
    LET result == NewResult(AccountName(entry.d)) IN
    IF sr.raised THEN ProcessAccountExcept(result, sr.e)
    ELSE IF sr.val.success
    THEN [result EXCEPT !.success = TRUE,
                        !.message = <<"sign-in succeeded">>]
    ELSE [result EXCEPT !.message = Get(sr.val, "error", <<"sign-in failed">>)]

\* process_account after api.sign_in
ProcessAccountLeave(entry, sr) ==
    LET result == NewResult(AccountName(entry.d)) IN
    IF sr.raised THEN ProcessAccountExcept(result, sr.e)
    ELSE IF sr.val.success
    THEN [result EXCEPT !.success = TRUE,
                        !.message = <<"sign-in succeeded">>,                 \* '签到成功'
                        !.sign_info = Get(sr.val, "data", EmptyDict)]
    ELSE [result EXCEPT !.message = Get(sr.val, "error", <<"sign-in failed">>)]  \* '签到失败'

\* process_account as a whole, for a record that is a JSON object
process_account(entry, ko, kExc, po, pExc, n, t) ==
    LET p == ProcessAccountEnter(entry) IN
    IF p.act = "return" THEN p.result
    ELSE ProcessAccountLeave(entry, sign_in(entry.d.user_id, ko, kExc, po, pExc, n, t))

\* sum(1 for r in results if r['success'])
RECURSIVE CountSuccess(_)
CountSuccess(results) ==
    IF results = <<>> THEN 0
    ELSE (IF Head(results).success THEN 1 ELSE 0) + CountSuccess(Tail(results))

\* counts whose failed is not reduced by the successes
Counts_Miscount(results) ==
    LET total == Len(results)
        success == CountSuccess(results)
    IN  [total |-> total, success |-> success, failed |-> total]

Counts(results) ==
    LET total == Len(results)
        success == CountSuccess(results)
        failed == total - success
    IN  [total |-> total, success |-> success, failed |-> failed]

\* one line of the report per result
ResultLine(result) ==
    <<IF result.success THEN "OK" ELSE "FAIL", " ", result.account_name, ": ">> \o result.message

\* content_lines of _send_notification
ContentLines(results) ==
    LET c == Counts(results) IN
    << <<"total: ", IntStr(c.total)>>, <<"success: ", IntStr(c.success)>>,
       <<"failed: ", IntStr(c.failed)>>,
       <<>>, <<"details:">> >>
    \o [i \in 1..Len(results) |-> ResultLine(results[i])]

----------------------------------------------------------------------------
(* Initial state *)

\* the direct calls of the static methods of WPSEncryption at time t:
\* generate_aes_key(length), and aes_encrypt with a key of the generator
Probes(t) ==
    { [fn |-> "generate_aes_key", arg |-> [length |-> l, seed |-> s], out |-> NoResult] :
        l \in 8..MaxKeyLen, s \in 1..MaxSeed }
    \cup { [fn |-> "aes_encrypt",
            arg |-> [plain_text |-> [user_id |-> 123, platform |-> 64],
                     aes_key |-> generate_aes_key(l, t, s)],
            out |-> NoResult] : l \in 8..MaxKeyLen, s \in 1..MaxSeed }
    \cup { [fn |-> "sign_in",
            arg |-> [client |-> WPSAPI(CookieText("sid=abc"), ""), user_id |-> 123],
            out |-> NoResult] }

\* the cookie strings given to a direct call of _parse_cookies
CookieChars == {"a", "=", ";", " "}
CookieStrings ==
    UNION { [1..n -> CookieChars] : n \in 0..MaxCookieLen }
    \cup { <<"a", "=", "a", ";", " ", "a", "=", ";", " ", "a">>,     \* "a=a; a=; a"
           <<"a", "=", ";", " ", "b", "=", "=", ";", " ", "a", "=", "b", ";">>,
           CookieText("sid=abc") }

\* the program is started (main), or a static method is called on its own
Init ==
    /\ \/ /\ pc = "main"
          /\ config \in Configs
          /\ clock \in RunClocks
          /\ probe = NoResult
       \/ /\ pc = "call"
          /\ config = [file |-> "none", data |-> <<>>]
          /\ clock \in Clocks
          /\ probe \in Probes(clock)
       \/ /\ pc = "call"
          /\ config = [file |-> "none", data |-> <<>>]
          /\ clock = [hi |-> 1, lo |-> 762300000]
          /\ probe \in { [fn |-> "parse_cookies", arg |-> [cookie_str |-> c],
                            out |-> NoResult] : c \in CookieStrings }
    /\ api = NoResult
    /\ accounts = <<>>
    /\ account_results = <<>>
    /\ idx = 0
    /\ st = "Idle"
    /\ public_key = "NONE"
    /\ crypto_result = NoResult
    /\ sign_result = NoResult
    /\ response = NoResult
    /\ keygen = 0
    /\ log = <<>>
    /\ summary = NoResult
    /\ exitCode = -1

----------------------------------------------------------------------------
(* main() and WPSTasks *)

\* an _init_accounts that raises when it finds no account
InitAccounts_EmptyIsFatal ==
    /\ pc = "main"
    /\ LET found == Get(Get(config.data, "wps", <<>>), "accounts", <<>>) IN
       IF config.file = "ok" /\ found # <<>>
       THEN /\ accounts' = found
            /\ pc' = "run"
            /\ exitCode' = exitCode
       ELSE /\ accounts' = accounts
            /\ pc' = "exit"
            /\ exitCode' = 1
    /\ UNCHANGED <<clock, api, probe, config, account_results, idx, st, public_key,
                   crypto_result, sign_result, response, keygen, log, summary>>

\* main: tasks = WPSTasks(), that is _init_accounts; a raised exception
\* reaches the except clauses of main, which call sys.exit(1)
InitAccounts ==
    /\ pc = "main"
    /\ IF config.file = "ok"
       THEN /\ accounts' = Get(Get(config.data, "wps", <<>>), "accounts", <<>>)
            /\ pc' = "run"
            /\ exitCode' = exitCode
       ELSE /\ accounts' = accounts
            /\ pc' = "exit"
            /\ exitCode' = 1
    /\ UNCHANGED <<clock, api, probe, config, account_results, idx, st, public_key, crypto_result,
                   sign_result, response, keygen, log, summary>>

\* run, up to the for loop
RunStart ==
    /\ pc = "run"
    /\ IF accounts = <<>>
       THEN /\ pc' = "exit"           \* return; main returns normally
            /\ exitCode' = 0
            /\ idx' = idx
       ELSE /\ pc' = "loop"
            /\ exitCode' = exitCode
            /\ idx' = 1
    /\ UNCHANGED <<clock, api, probe, config, accounts, account_results, st, public_key, crypto_result,
                   sign_result, response, keygen, log, summary>>

\* one iteration of the loop of run, up to the return of process_account or
\* to its call of api.sign_in
ProcessAccount ==
    /\ pc = "loop"
    /\ idx <= Len(accounts)
    /\ LET p == ProcessAccountEnter(accounts[idx]) IN
       CASE p.act = "raise" ->
              \* the exception leaves process_account and run; main exits with 1
              /\ pc' = "exit"
              /\ exitCode' = 1
              /\ UNCHANGED <<account_results, idx, st, log, api>>
         [] p.act = "return" ->
              /\ account_results' = Append(account_results, p.result)
              /\ idx' = idx + 1
              /\ UNCHANGED <<pc, exitCode, st, log, api>>
         [] p.act = "call" ->
              /\ api' = WPSAPI(CookieText(Get(accounts[idx].d, "cookies", JStr("")).v),
                               Get(accounts[idx].d, "user_agent", ""))
              /\ log' = log \o << Event("WPSAPI", idx, NoResult),
                                  Event("sign_in", idx, NoResult) >>
              /\ pc' = "sign_in"
              /\ st' = "Start"
              /\ UNCHANGED <<account_results, idx, exitCode>>
    /\ UNCHANGED <<clock, probe, config, accounts, public_key, crypto_result, sign_result,
                   response, keygen, summary>>

\* sign_in step 1: get_encrypt_key sends its GET
KeyFetchSend ==
    /\ pc = "sign_in"
    /\ st = "Start"
    /\ log' = Append(log, Event("GET", idx, [headers |-> api.base_headers,
                                              cookies |-> api.cookies]))
    /\ st' = "KeyFetchPending"
    /\ UNCHANGED <<clock, api, probe, pc, config, accounts, account_results, idx, public_key,
                   crypto_result, sign_result, response, keygen, summary, exitCode>>

\* the GET returns, raises or times out; sign_in tests key_result
KeyFetchReturn ==
    /\ pc = "sign_in"
    /\ st = "KeyFetchPending"
    /\ \E o \in Outcomes(KeyBodies), isRequestExc \in BOOLEAN :
         LET key_result == get_encrypt_key(o, isRequestExc) IN
         /\ response' = o
         /\ IF ~key_result.success
            THEN /\ sign_result' = Return(KeyFetchFailure(key_result))
                 /\ st' = "KeyFetchFailed"
                 /\ UNCHANGED <<public_key, log>>
            ELSE /\ public_key' = key_result.public_key
                 /\ st' = "KeyFetchOk"
                 /\ log' = Append(log, Event("key_ok", idx,           \* logger.info, api.py:176
                                             [public_key |-> key_result.public_key]))
                 /\ sign_result' = sign_result
    /\ UNCHANGED <<clock, api, probe, pc, config, accounts, account_results, idx, crypto_result,
                   keygen, summary, exitCode>>

\* sign_in step 2: generate_crypto_data
BuildArtifacts ==
    /\ pc = "sign_in"
    /\ st = "KeyFetchOk"
    /\ LET g == generate_crypto_data(public_key, accounts[idx].d.user_id, keygen, clock) IN
       /\ keygen' = keygen + g.calls
       /\ log' = IF g.calls = 0 THEN log
                 ELSE Append(log, Event("generate_aes_key", idx, [key |-> g.key]))
       /\ IF g.r.raised
          THEN LET h == SignInExcept(g.r.e) IN
               /\ sign_result' = h
               /\ st' = IF h.raised THEN "Raised" ELSE "ArtifactsFailed"
               /\ crypto_result' = crypto_result
          ELSE /\ crypto_result' = g.r.val
               /\ st' = "ArtifactsBuilt"
               /\ sign_result' = sign_result
    /\ UNCHANGED <<clock, api, probe, pc, config, accounts, account_results, idx, public_key,
                   response, summary, exitCode>>

\* sign_in steps 3-5: the POST is sent with the token header
SubmitSend ==
    /\ pc = "sign_in"
    /\ st = "ArtifactsBuilt"
    /\ LET h == PostHeaders(api, crypto_result.token) IN
       /\ api' = h.client
       /\ log' = Append(log, Event("POST", idx,
                                   [headers |-> h.headers, cookies |-> h.client.cookies,
                                    token |-> crypto_result.token,
                                    extra |-> crypto_result.extra]))
    /\ st' = "SubmitPending"
    /\ UNCHANGED <<clock, probe, pc, config, accounts, account_results, idx, public_key,
                   crypto_result, sign_result, response, keygen, summary, exitCode>>

\* a sign_in that sends the POST again when it raised
SubmitReturn_Retry ==
    /\ pc = "sign_in"
    /\ st = "SubmitPending"
    /\ \E o \in Outcomes(SignBodies), isRequestExc \in BOOLEAN :
         LET r == SignInResponse(o, isRequestExc)
             h == IF r.raised THEN SignInExcept(r.e) ELSE r
         IN  /\ response' = o
             /\ IF o.kind = "raise" /\ Len(log) < 12
                THEN /\ st' = "ArtifactsBuilt"
                     /\ sign_result' = sign_result
                ELSE /\ sign_result' = h
                     /\ st' = IF h.raised THEN "Raised"
                              ELSE IF h.val.success THEN "SubmitOk" ELSE "SubmitFailed"
    /\ UNCHANGED <<clock, api, probe, pc, config, accounts, account_results, idx, public_key,
                   crypto_result, keygen, log, summary, exitCode>>

\* the POST returns, raises or times out; sign_in step 6
SubmitReturn ==
    /\ pc = "sign_in"
    /\ st = "SubmitPending"
    /\ \E o \in Outcomes(SignBodies), isRequestExc \in BOOLEAN :
         LET r == SignInResponse(o, isRequestExc)
             h == IF r.raised THEN SignInExcept(r.e) ELSE r
         IN  /\ response' = o
             /\ sign_result' = h
             /\ st' = IF h.raised THEN "Raised"
                      ELSE IF h.val.success THEN "SubmitOk" ELSE "SubmitFailed"
    /\ UNCHANGED <<clock, api, probe, pc, config, accounts, account_results, idx, public_key,
                   crypto_result, keygen, log, summary, exitCode>>

SignInTerminal == {"KeyFetchFailed", "ArtifactsFailed", "SubmitFailed", "SubmitOk", "Raised"}

\* a run that puts the newest result first
SignInReturn_Prepend ==
    /\ pc = "sign_in"
    /\ st \in SignInTerminal
    /\ account_results' = << ProcessAccountLeave(accounts[idx], sign_result) >>
                              \o account_results
    /\ idx' = idx + 1
    /\ pc' = "loop"
    /\ st' = "Idle"
    /\ public_key' = "NONE"
    /\ crypto_result' = NoResult
    /\ sign_result' = NoResult
    /\ response' = NoResult
    /\ api' = NoResult
    /\ UNCHANGED <<clock, probe, config, accounts, keygen, log, summary, exitCode>>

\* sign_in is left; process_account builds its result and run appends it
SignInReturn ==
    /\ pc = "sign_in"
    /\ st \in SignInTerminal
    /\ account_results' = Append(account_results,
                                 ProcessAccountLeave(accounts[idx], sign_result))
    /\ idx' = idx + 1
    /\ pc' = "loop"
    /\ st' = "Idle"
    /\ public_key' = "NONE"
    /\ crypto_result' = NoResult
    /\ sign_result' = NoResult
    /\ response' = NoResult
    /\ api' = NoResult
    /\ UNCHANGED <<clock, probe, config, accounts, keygen, log, summary, exitCode>>

\* the loop of run is over: _print_summary
PrintSummary ==
    /\ pc = "loop"
    /\ idx > Len(accounts)
    /\ summary' = Counts(account_results)
    /\ pc' = "notify"
    /\ UNCHANGED <<clock, api, probe, config, accounts, account_results, idx, st, public_key,
                   crypto_result, sign_result, response, keygen, log, exitCode>>

\* a _send_notification without its try: the notifier's exception reaches main
SendNotification_Propagates ==
    /\ pc = "notify"
    /\ \E notifierRaises \in BOOLEAN :
         /\ IF account_results = <<>>
            THEN log' = log
            ELSE log' = Append(log, Event("notify", 0,
                                          [title |-> "WPS sign-in result",
                                           content |-> ContentLines(account_results),
                                           counts |-> Counts(account_results),
                                           raised |-> notifierRaises]))
         /\ pc' = "exit"
         /\ exitCode' = IF notifierRaises /\ account_results # <<>> THEN 1 ELSE 0
    /\ UNCHANGED <<clock, api, probe, config, accounts, account_results, idx, st, public_key,
                   crypto_result, sign_result, response, keygen, summary>>

\* _send_notification: the notifier succeeds or raises; run and main return
SendNotification ==
    /\ pc = "notify"
    /\ \E notifierRaises \in BOOLEAN :
         /\ IF account_results = <<>>
            THEN log' = log
            ELSE log' = Append(log, Event("notify", 0,
                                          [title |-> "WPS sign-in result",
                                           content |-> ContentLines(account_results),
                                           counts |-> Counts(account_results),
                                           raised |-> notifierRaises]))
         /\ pc' = "exit"
         /\ exitCode' = 0
    /\ UNCHANGED <<clock, api, probe, config, accounts, account_results, idx, st, public_key,
                   crypto_result, sign_result, response, keygen, summary>>

\* WPSEncryption.generate_aes_key(length), called on its own
CallGenerateAesKey ==
    /\ pc = "call"
    /\ probe.fn = "generate_aes_key"
    /\ probe' = [probe EXCEPT
                   !.out = Return(generate_aes_key(probe.arg.length, clock, probe.arg.seed))]
    /\ pc' = "returned"
    /\ UNCHANGED <<clock, api, config, accounts, account_results, idx, st, public_key,
                   crypto_result, sign_result, response, keygen, log, summary, exitCode>>

\* WPSEncryption.aes_encrypt(plain_text, aes_key), called on its own
CallAesEncrypt ==
    /\ pc = "call"
    /\ probe.fn = "aes_encrypt"
    /\ probe' = [probe EXCEPT !.out = aes_encrypt(probe.arg.plain_text, probe.arg.aes_key)]
    /\ pc' = "returned"
    /\ UNCHANGED <<clock, api, config, accounts, account_results, idx, st, public_key,
                   crypto_result, sign_result, response, keygen, log, summary, exitCode>>

\* WPSAPI._parse_cookies(cookie_str), called on its own
CallParseCookies ==
    /\ pc = "call"
    /\ probe.fn = "parse_cookies"
    /\ probe' = [probe EXCEPT !.out = parse_cookies(probe.arg.cookie_str)]
    /\ pc' = "returned"
    /\ UNCHANGED <<clock, api, config, accounts, account_results, idx, st, public_key,
                   crypto_result, sign_result, response, keygen, log, summary, exitCode>>

\* api.sign_in(user_id) called twice on one WPSAPI instance
CallSignInTwice ==
    /\ pc = "call"
    /\ probe.fn = "sign_in"
    /\ \E ko1 \in Outcomes(KeyBodies), ko2 \in Outcomes(KeyBodies), kExc \in BOOLEAN :
         LET first == SignInRequests(probe.arg.client, probe.arg.user_id, ko1, kExc, 0, clock)
             calls == IF Len(first.sent) = 2 THEN 1 ELSE 0
             second == SignInRequests(first.client, probe.arg.user_id, ko2, kExc, calls, clock)
         IN  probe' = [probe EXCEPT !.out = Return([client |-> second.client,
                                                    sent |-> first.sent \o second.sent])]
    /\ pc' = "returned"
    /\ UNCHANGED <<clock, api, config, accounts, account_results, idx, st, public_key,
                   crypto_result, sign_result, response, keygen, log, summary, exitCode>>

Next ==
    \/ InitAccounts
    \/ RunStart
    \/ ProcessAccount
    \/ KeyFetchSend
    \/ KeyFetchReturn
    \/ BuildArtifacts
    \/ SubmitSend
    \/ SubmitReturn
    \/ SignInReturn
    \/ PrintSummary
    \/ SendNotification
    \/ CallGenerateAesKey
    \/ CallAesEncrypt
    \/ CallParseCookies
    \/ CallSignInTwice

Spec == Init /\ [][Next]_vars

\* every step that is enabled is eventually taken: the program is sequential
\* and each HTTP call returns or times out after 30 seconds
FairSpec == Spec /\ WF_vars(Next)

----------------------------------------------------------------------------
(* Observations on the log *)

\* the calls of kind ev logged for account i
Calls(ev, i) == { k \in DOMAIN log : log[k].ev = ev /\ log[k].acct = i }

\* a call of sign_in is running
InSignIn == pc = "sign_in"

\* the body of an HTTP response was read as a JSON object
JsonRead(o) == o.kind = "response" /\ o.body.json = "dict"

----------------------------------------------------------------------------
(* Claims about WPSAPI.sign_in *)

\* the key endpoint answered with a JSON object that reports a failure and a message
KeyServerReportsFailure ==
    /\ InSignIn /\ st = "KeyFetchFailed"
    /\ JsonRead(response) /\ response.status < 400
    /\ Get(response.body.d, "result", "None") # "ok"
    /\ "msg" \in DOMAIN response.body.d

\* C1: when the key endpoint reports a failure with a message, sign_in returns
\* success=false with an error that contains that message and sends no POST;
\* every failed key fetch ends the attempt without a POST, and every POST in
\* the log comes after the successful key fetch of the same account.
C1_KeyFailureStopsSignIn ==
    /\ KeyServerReportsFailure =>
          /\ ~sign_result.raised
          /\ sign_result.val.success = FALSE
          /\ Contains(sign_result.val.error, response.body.d.msg)
    /\ (InSignIn /\ st = "KeyFetchFailed") =>
          /\ sign_result.val.success = FALSE
          /\ Calls("POST", idx) = {}
    /\ \A k \in DOMAIN log :
          log[k].ev = "POST" =>
             \E j \in 1..(k - 1) :
                /\ log[j].ev = "key_ok" /\ log[j].acct = log[k].acct
                /\ \E g \in 1..(j - 1) : log[g].ev = "GET" /\ log[g].acct = log[k].acct

C1_Witness ==
    /\ KeyServerReportsFailure
    /\ response.body.d.msg = <<"invalid cookie">>
    /\ sign_result.val.error = <<"get public key failed: ", "invalid cookie">>

\* the transitions of one sign_in call as the specification draws them
ClaimEdges ==
    { <<"Idle", "Start">>, <<"Start", "KeyFetchPending">>,
      <<"KeyFetchPending", "KeyFetchFailed">>, <<"KeyFetchPending", "KeyFetchOk">>,
      <<"KeyFetchOk", "ArtifactsBuilt">>, <<"ArtifactsBuilt", "SubmitPending">>,
      <<"SubmitPending", "SubmitFailed">>, <<"SubmitPending", "SubmitOk">>,
      <<"KeyFetchFailed", "Idle">>, <<"SubmitFailed", "Idle">>, <<"SubmitOk", "Idle">> }

\* the same with the terminal state reached when building the artifacts raises
AmendedEdges ==
    ClaimEdges \cup { <<"KeyFetchOk", "ArtifactsFailed">>, <<"ArtifactsFailed", "Idle">> }

TerminalOf(edges) == { e[1] : e \in { f \in edges : f[2] = "Idle" } }

\* C2 as stated: each call of sign_in follows
\* Start -> KeyFetchPending -> {KeyFetchFailed | KeyFetchOk -> ArtifactsBuilt ->
\* SubmitPending -> {SubmitFailed | SubmitOk}}, sends at most one GET and one
\* POST, reaches a terminal state and has exactly one result there.
C2_Original ==
    /\ [][ st' # st => <<st, st'>> \in ClaimEdges ]_vars
    /\ [](\A i \in 1..Len(accounts) :
             /\ Cardinality(Calls("GET", i)) <= 1
             /\ Cardinality(Calls("POST", i)) <= 1)
    /\ [](InSignIn =>
             IF st \in TerminalOf(ClaimEdges)
             THEN sign_result # NoResult /\ ~sign_result.raised
             ELSE sign_result = NoResult)
    /\ ((InSignIn /\ st = "Start") ~> (InSignIn /\ st \in TerminalOf(ClaimEdges)))

\* C2 (amended): each call of sign_in follows Start -> KeyFetchPending ->
\* {KeyFetchFailed | KeyFetchOk -> {ArtifactsFailed | ArtifactsBuilt ->
\* SubmitPending -> {SubmitFailed | SubmitOk}}}, where ArtifactsFailed is the
\* terminal state of a call whose artifact construction raised; it sends at
\* most one GET and one POST, never goes back, reaches a terminal state and
\* has exactly one result there and none before.
C2_SignInStateMachine ==
    /\ [][ st' # st => <<st, st'>> \in AmendedEdges ]_vars
    /\ [](\A i \in 1..Len(accounts) :
             /\ Cardinality(Calls("GET", i)) <= 1
             /\ Cardinality(Calls("POST", i)) <= 1)
    /\ [](InSignIn =>
             IF st \in TerminalOf(AmendedEdges)
             THEN sign_result # NoResult /\ ~sign_result.raised
             ELSE sign_result = NoResult)
    /\ ((InSignIn /\ st = "Start") ~> (InSignIn /\ st \in TerminalOf(AmendedEdges)))

C2_Witness ==
    /\ InSignIn /\ st = "ArtifactsFailed"
    /\ Cardinality(Calls("GET", idx)) = 1
    /\ Calls("POST", idx) = {}
    /\ sign_result.val.success = FALSE

\* C3: sign_in never raises: in each of its terminal states it has returned a
\* value, which for every failure has success=false and an error message, and
\* no recorded result of an account that called sign_in comes from the except
\* clause of process_account.
C3_SignInNeverRaises ==
    /\ st # "Raised"
    /\ (InSignIn /\ st \in SignInTerminal) =>
          /\ ~sign_result.raised
          /\ "success" \in DOMAIN sign_result.val
          /\ st # "SubmitOk" =>
                /\ sign_result.val.success = FALSE
                /\ "error" \in DOMAIN sign_result.val
                /\ sign_result.val.error # <<>>
    /\ \A i \in DOMAIN account_results :
          Calls("sign_in", i) # {} =>
             /\ account_results[i].message # <<>>
             /\ Head(account_results[i].message) # "exception while processing account: "

C3_Witness ==
    /\ InSignIn /\ st = "ArtifactsFailed"
    /\ public_key = "NOTPEM"
    /\ sign_result = Return([success |-> FALSE,
                             error |-> <<"unknown error: ", "ValueError: RSA key format">>])

\* sign_in has received the response of its POST
SubmitAnswered ==
    /\ InSignIn /\ st \in {"SubmitFailed", "SubmitOk"}
    /\ response.kind = "response"

\* C4: sign_in returns success=true exactly when the key was fetched, the
\* artifacts were built and the POST was answered with status 200 and a body
\* whose result is "ok", and then returns the body's data; a POST answered
\* with another status fails with "HTTP <status>", and one answered with 200
\* and another result fails with the server's msg.
C4_SuccessIffOk ==
    (InSignIn /\ st \in SignInTerminal /\ ~sign_result.raised) =>
       LET r == sign_result.val IN
       /\ r.success <=>
             /\ Calls("key_ok", idx) # {}
             /\ crypto_result # NoResult
             /\ Calls("POST", idx) # {}
             /\ SubmitAnswered
             /\ response.status = 200
             /\ JsonRead(response)
             /\ Get(response.body.d, "result", "None") = "ok"
       /\ r.success => r.data = Get(response.body.d, "data", EmptyDict)
       /\ (SubmitAnswered /\ response.status # 200) =>
             ~r.success /\ r.error = <<"HTTP ", StatusStr[response.status]>>
       /\ (SubmitAnswered /\ response.status = 200 /\ JsonRead(response)
              /\ Get(response.body.d, "result", "None") # "ok"
              /\ "msg" \in DOMAIN response.body.d) =>
             ~r.success /\ r.error = response.body.d.msg

C4_Witness ==
    /\ SubmitAnswered /\ st = "SubmitOk"
    /\ response.status = 200
    /\ sign_result = Return([success |-> TRUE, data |-> "{points:5}"])

----------------------------------------------------------------------------
(* Claims about WPSTasks.run and main *)

\* the record is a JSON object whose cookies, when given, are a string
WellFormed(e) ==
    /\ e.type = "dict"
    /\ "cookies" \in DOMAIN e.d => e.d.cookies.t = "str"

\* the record lacks user_id or cookies (absent, or empty: 0, "")
MissingField(e) ==
    \/ "user_id" \notin DOMAIN e.d \/ e.d.user_id = 0
    \/ "cookies" \notin DOMAIN e.d \/ e.d.cookies.v = ""

NetworkCalls(i) == Calls("GET", i) \cup Calls("POST", i)

\* the run is over and the configuration was loaded
RunOver == pc = "exit" /\ config.file = "ok"

\* the for loop of run has been left at its end
LoopEnded == summary # NoResult

\* C5: over N well-formed account records of which M lack user_id or cookies,
\* each processed account that lacks one has a failure result and made no call
\* at all, each other one constructed a WPSAPI, invoked sign_in and sent the
\* key-fetch GET; at the end of the run exactly the M lacking accounts have a
\* failure result without network call.
C5_ValidationShortCircuit ==
    /\ \A i \in DOMAIN account_results :
          WellFormed(accounts[i]) =>
             IF MissingField(accounts[i])
             THEN /\ ~account_results[i].success
                  /\ NetworkCalls(i) = {}
                  /\ Calls("WPSAPI", i) = {} /\ Calls("sign_in", i) = {}
             ELSE /\ Calls("WPSAPI", i) # {} /\ Calls("sign_in", i) # {}
                  /\ Calls("GET", i) # {}
    /\ (RunOver /\ \A i \in DOMAIN accounts : WellFormed(accounts[i])) =>
          /\ Len(account_results) = Len(accounts)
          /\ { i \in DOMAIN account_results :
                 ~account_results[i].success /\ NetworkCalls(i) = {} }
             = { i \in DOMAIN accounts : MissingField(accounts[i]) }

C5_Witness ==
    /\ RunOver
    /\ Len(accounts) = 2 /\ Len(account_results) = 2
    /\ WellFormed(accounts[1]) /\ MissingField(accounts[1])
    /\ WellFormed(accounts[2]) /\ ~MissingField(accounts[2])
    /\ NetworkCalls(1) = {}
    /\ Calls("POST", 2) # {}

\* C6: an exception raised while processing account i, also while reading its
\* record, becomes a failure result of account i; the later accounts are
\* processed and the run ends with one result per account.
C6_FailureIsolation ==
    RunOver =>
       /\ Len(account_results) = Len(accounts)
       /\ \A i \in DOMAIN accounts :
             ~WellFormed(accounts[i]) => ~account_results[i].success

\* C7: account_results is at every point the results of a prefix of the
\* accounts, in order; every call logged belongs to an account whose
\* predecessors all have their result, and to the one being processed if it
\* has none yet; when the loop ends there is one result per account.
C7_SequentialInOrder ==
    /\ Len(account_results) <= Len(accounts)
    /\ pc \in {"loop", "sign_in"} => Len(account_results) = idx - 1
    /\ \A k \in DOMAIN account_results :
          account_results[k].account_name = AccountName(accounts[k].d)
    /\ \A k \in DOMAIN log :
          log[k].ev \in {"WPSAPI", "sign_in", "GET", "key_ok", "POST"} =>
             /\ log[k].acct <= Len(account_results) + 1
             /\ log[k].acct = Len(account_results) + 1 => (InSignIn /\ log[k].acct = idx)
             /\ \A j \in 1..(k - 1) : log[j].acct <= log[k].acct
    /\ LoopEnded => Len(account_results) = Len(accounts)

C7_Witness ==
    /\ LoopEnded
    /\ Len(account_results) = 2
    /\ account_results[1].account_name = "alice"
    /\ account_results[2].account_name = "unnamed account"
    /\ NetworkCalls(1) # {} /\ NetworkCalls(2) # {}

Successes(results) == { i \in DOMAIN results : results[i].success }
Failures(results) == { i \in DOMAIN results : ~results[i].success }

\* the counts c are the true counts of results
TrueCounts(c, results) ==
    /\ c.total = Len(results)
    /\ c.success = Cardinality(Successes(results))
    /\ c.failed = Cardinality(Failures(results))
    /\ c.failed = c.total - c.success

Notifications == { k \in DOMAIN log : log[k].ev = "notify" }

\* C8: the counts of _print_summary and of _send_notification are the true
\* counts of the results, and the report has 5 header lines followed by one
\* line per result, in the order of the results.
C8_SummaryCounts ==
    /\ summary # NoResult => TrueCounts(summary, account_results)
    /\ \A k \in Notifications :
          LET n == log[k].info IN
          /\ TrueCounts(n.counts, account_results)
          /\ Len(n.content) = Len(account_results) + 5
          /\ n.content[1] = <<"total: ", IntStr(Len(account_results))>>
          /\ n.content[2] = <<"success: ", IntStr(Cardinality(Successes(account_results)))>>
          /\ n.content[3] = <<"failed: ", IntStr(Cardinality(Failures(account_results)))>>
          /\ \A i \in DOMAIN account_results :
                /\ n.content[5 + i][1] = (IF account_results[i].success THEN "OK" ELSE "FAIL")
                /\ n.content[5 + i][3] = account_results[i].account_name

C8_Witness ==
    /\ Notifications # {}
    /\ summary = [total |-> 2, success |-> 1, failed |-> 1]
    /\ account_results[1].success /\ ~account_results[2].success

\* the loop of run has been entered
LoopEntered == idx >= 1

\* C9: the process exits non-zero when the configuration file is missing or
\* unparsable, without processing an account or making a call; once the loop
\* has been entered it exits with code zero.
C9_ExitCodes ==
    /\ (pc = "exit" /\ config.file # "ok") =>
          exitCode # 0 /\ account_results = <<>> /\ log = <<>> /\ ~LoopEntered
    /\ (pc = "exit" /\ LoopEntered) => exitCode = 0

\* C10: the notifier is called at most once, after every account has its
\* result and the summary was made, with the counts and lines of all results;
\* when it raises, the results stay as reported and the run completes with
\* exit code zero.
C10_NotifyOnceAtEnd ==
    /\ Cardinality(Notifications) <= 1
    /\ \A k \in Notifications :
          LET n == log[k].info IN
          /\ k = Len(log)
          /\ Len(account_results) = Len(accounts)
          /\ LoopEnded /\ n.counts = summary
          /\ n.content = ContentLines(account_results)
          /\ pc = "exit" /\ exitCode = 0
    /\ pc = "notify" => Notifications = {} /\ LoopEnded

C10_Witness ==
    /\ \E k \in Notifications : log[k].info.raised
    /\ pc = "exit" /\ exitCode = 0
    /\ Len(account_results) = 2

----------------------------------------------------------------------------
(* Claims about a configuration without accounts *)

\* the file is a JSON object whose wps.accounts is missing or is the empty list
NoAccountList ==
    /\ config.file = "ok"
    /\ \/ "wps" \notin DOMAIN config.data
       \/ "accounts" \notin DOMAIN config.data.wps
       \/ config.data.wps.accounts = <<>>

\* C11: when the configuration file exists and holds no account list, the run
\* does nothing: the loop is never entered, no call (client, sign_in, GET,
\* POST, notifier) is made, no result is recorded, no summary is computed, and
\* the process ends with exit code 0.
C11_NoAccountsNoWork ==
    NoAccountList =>
        /\ pc \in {"main", "run", "exit"}
        /\ idx = 0
        /\ log = <<>>
        /\ account_results = <<>>
        /\ summary = NoResult
        /\ exitCode = IF pc = "exit" THEN 0 ELSE -1

\* the run of a configuration whose wps object has no accounts has ended
C11_Witness ==
    /\ NoAccountList
    /\ "wps" \in DOMAIN config.data /\ "accounts" \notin DOMAIN config.data.wps
    /\ pc = "exit" /\ exitCode = 0

----------------------------------------------------------------------------
(* Claims about the key material *)

\* the public key that the key fetch of account i returned
PublicKeyOf(i) == log[CHOOSE k \in Calls("key_ok", i) : TRUE].info.public_key

\* sign_in of account i has called generate_crypto_data and is past it
Constructed(i) ==
    /\ Calls("key_ok", i) # {}
    /\ i < idx \/ st \notin {"Start", "KeyFetchPending", "KeyFetchOk"}

\* the key k zero-padded to 32 characters
IsPaddingOf(padded, k) ==
    /\ Len(padded) = 32 /\ Len(k) <= 32
    /\ \A j \in 1..32 : padded[j] = IF j <= Len(k) THEN k[j] ELSE "NUL"

\* every POST of account i carries the one key generated in the attempt of
\* account i: it encrypts {user_id, platform} in extra, and it is wrapped under
\* the public key fetched in that attempt in the token header
KeyUsedByPosts(i) ==
    \A p \in Calls("POST", i) :
        \E g \in Calls("generate_aes_key", i), k \in Calls("key_ok", i) :
            /\ k < g /\ g < p
            /\ log[p].info.headers["token"].plain = log[g].info.key
            /\ log[p].info.headers["token"].pub = log[k].info.public_key
            /\ IsPaddingOf(log[p].info.extra.key, log[g].info.key)
            /\ log[p].info.extra.plain = [user_id |-> accounts[i].d.user_id, platform |-> 64]

\* C12 as stated: at most one key per attempt, none after a failed key fetch,
\* exactly one in every attempt that went through generate_crypto_data, and
\* every POST carries the key and the public key of its own attempt.
C12_Original ==
    \A i \in DOMAIN accounts :
        /\ Cardinality(Calls("generate_aes_key", i)) <= 1
        /\ Calls("key_ok", i) = {} => Calls("generate_aes_key", i) = {}
        /\ Constructed(i) => Cardinality(Calls("generate_aes_key", i)) = 1
        /\ KeyUsedByPosts(i)

\* C12: generate_aes_key is called at most once per attempt and never after a
\* failed key fetch; in an attempt that went through generate_crypto_data it is
\* called exactly once when the fetched public key base64-decodes and not at
\* all when it does not; every POST carries, in extra and in the token header,
\* the key generated in its own attempt, wrapped under the public key fetched
\* in its own attempt.
C12_OneKeyPerAttempt ==
    \A i \in DOMAIN accounts :
        /\ Cardinality(Calls("generate_aes_key", i)) <= 1
        /\ Calls("key_ok", i) = {} => Calls("generate_aes_key", i) = {}
        /\ Constructed(i) =>
              Cardinality(Calls("generate_aes_key", i)) =
                  IF PublicKeyOf(i) = "BADB64" THEN 0 ELSE 1
        /\ KeyUsedByPosts(i)

\* two accounts have each sent their POST
C12_Witness ==
    /\ Len(accounts) >= 2
    /\ Calls("POST", 1) # {} /\ Calls("POST", 2) # {}

\* a direct call of the static method fn has returned
Returned(fn) == pc = "returned" /\ probe.fn = fn

\* the characters of string.ascii_lowercase + string.digits
KeyAlphabet == { Lower[j] : j \in DOMAIN Lower } \cup { Digits[j] : j \in DOMAIN Digits }

\* C13: for every length L >= 11 and every clock, generate_aes_key(L) returns
\* a string of exactly L characters that ends with the decimal timestamp and
\* whose characters before the timestamp are lowercase letters or digits.
C13_KeyShape ==
    (Returned("generate_aes_key") /\ probe.arg.length >= 11) =>
        LET key == probe.out.val
            ts == TimeStr(clock)
        IN  /\ Len(key) = probe.arg.length
            /\ Len(key) >= Len(ts)
            /\ SubSeq(key, Len(key) - Len(ts) + 1, Len(key)) = ts
            /\ \A j \in 1..(Len(key) - Len(ts)) : key[j] \in KeyAlphabet

\* the key that generate_aes_key returned in the attempt of account i
KeyOf(i) == log[CHOOSE g \in Calls("generate_aes_key", i) : TRUE].info.key

\* C14: every key generated in a sign-in attempt ends with the timestamp and
\* has at least 16 characters of the random alphabet before it; the IV of every
\* ciphertext made by aes_encrypt, in sign_in or in a direct call, is the first
\* 16 characters of the key, so it lies inside the random prefix.
C14_IvIsKeyPrefix ==
    /\ \A g \in DOMAIN log :
          log[g].ev = "generate_aes_key" =>
              LET key == log[g].info.key
                  ts == TimeStr(clock)
              IN  /\ Len(key) - Len(ts) >= 16
                  /\ SubSeq(key, Len(key) - Len(ts) + 1, Len(key)) = ts
                  /\ \A j \in 1..16 : key[j] \in KeyAlphabet
    /\ \A p \in DOMAIN log :
          log[p].ev = "POST" =>
              /\ Len(log[p].info.extra.iv) = 16
              /\ log[p].info.extra.iv = SubSeq(KeyOf(log[p].acct), 1, 16)
    /\ (InSignIn /\ crypto_result # NoResult) =>
          crypto_result.extra.iv = SubSeq(KeyOf(idx), 1, 16)
    /\ (Returned("aes_encrypt") /\ ~probe.out.raised) =>
          probe.out.val.iv = SubSeq(probe.arg.aes_key, 1, 16)

\* a POST went out whose payload was encrypted with a 16-character IV
C14_Witness ==
    \E p \in DOMAIN log :
        /\ log[p].ev = "POST"
        /\ Len(log[p].info.extra.iv) = 16
        /\ log[p].info.extra.iv = SubSeq(KeyOf(log[p].acct), 1, 16)

\* C15: a direct call of aes_encrypt with a key of more than 32 characters
\* raises and returns no ciphertext; in sign_in, an attempt whose generated key
\* has more than 32 characters ends in ArtifactsFailed with a returned
\* success=false, sends no POST, and its recorded result is a failure.
C15_LongKeyFails ==
    /\ (Returned("aes_encrypt") /\ Len(probe.arg.aes_key) > 32) => probe.out.raised
    /\ \A i \in DOMAIN accounts :
          (Calls("generate_aes_key", i) # {} /\ Len(KeyOf(i)) > 32) =>
              /\ Calls("POST", i) = {}
              /\ (InSignIn /\ i = idx) =>
                    /\ st = "ArtifactsFailed"
                    /\ crypto_result = NoResult
                    /\ ~sign_result.raised /\ ~sign_result.val.success
              /\ i < idx => (i \in DOMAIN account_results /\ ~account_results[i].success)

\* sign_in generated a key of 33 characters and stopped before the POST
C15_Witness ==
    /\ InSignIn /\ st = "ArtifactsFailed"
    /\ Calls("generate_aes_key", idx) # {}
    /\ Len(KeyOf(idx)) > 32
    /\ ~sign_result.raised /\ ~sign_result.val.success

----------------------------------------------------------------------------
(* Claims about the independence of the accounts *)

\* the results that process_account gives for the record of account j alone,
\* over all the responses to the requests of account j
OwnResults(j) ==
    { process_account(accounts[j], ko, kExc, po, pExc, 0, clock) :
        ko \in Outcomes(KeyBodies), kExc \in BOOLEAN,
        po \in Outcomes(SignBodies), pExc \in BOOLEAN }

\* main has returned or exited after the configuration was loaded
RunEnded == pc = "exit" /\ config.file = "ok"

\* C16: the result of account j is a function of the record of account j and
\* of the responses to its own requests: whatever the other records and their
\* responses are, when the run has ended every account whose record is a JSON
\* object has its result, and it is one that its own record and responses give.
C16_AccountIndependence ==
    RunEnded =>
        \A j \in DOMAIN accounts :
            accounts[j].type = "dict" =>
                /\ j \in DOMAIN account_results
                /\ account_results[j] \in OwnResults(j)

\* the part of C16 that the code keeps: every result that is recorded is one
\* that the account's own record and responses give
C16_RecordedResultsAreOwn ==
    \A j \in DOMAIN account_results : account_results[j] \in OwnResults(j)

----------------------------------------------------------------------------
(* Claims about the result of one account *)

\* C17: in every step that records a result, the result carries the label of
\* its account (account_name, or the default label); when the step is the
\* return of sign_in, the result is a success exactly when sign_in returned
\* success=true, on success its sign_info is the data that sign_in returned,
\* and on failure its message is the error that sign_in returned and its
\* sign_info is empty; a result recorded without a sign_in is a failure.
C17_ResultFidelity ==
    [][ account_results' # account_results =>
          /\ Len(account_results') = Len(account_results) + 1
          /\ LET j == Len(account_results')
                 r == account_results'[j]
                 d == accounts[j].d
             IN  /\ j = idx
                 /\ r.account_name = IF "account_name" \in DOMAIN d THEN d.account_name
                                     ELSE "unnamed account"
                 /\ IF pc = "sign_in"
                    THEN /\ r.success <=> (~sign_result.raised /\ sign_result.val.success)
                         /\ r.success => r.sign_info = sign_result.val.data
                         /\ (~r.success /\ ~sign_result.raised) =>
                               /\ r.message = sign_result.val.error
                               /\ r.sign_info = EmptyDict
                    ELSE /\ ~r.success
                         /\ r.sign_info = EmptyDict ]_vars

\* a success with the data of the sign-in response and a failure with the
\* error of sign_in are both recorded, each under its label
C17_Witness ==
    \E j, k \in DOMAIN account_results :
        /\ account_results[j].success
        /\ account_results[j].sign_info = "{points:5}"
        /\ account_results[j].account_name = "alice"
        /\ ~account_results[k].success
        /\ account_results[k].account_name = "unnamed account"
        /\ account_results[k].message = <<"already signed">>

----------------------------------------------------------------------------
(* Claims about _parse_cookies *)

Separator == <<";", " ">>

\* the segments joined again by the separator
RECURSIVE JoinSegments(_)
JoinSegments(segs) ==
    IF Len(segs) = 1 THEN segs[1]
    ELSE segs[1] \o Separator \o JoinSegments(Tail(segs))

\* the segment has an "="; the text before its first "=" and the text after it
WellFormedSegment(seg) == \E i \in DOMAIN seg : seg[i] = "="
FirstEq(seg) == CHOOSE i \in DOMAIN seg : seg[i] = "=" /\ \A j \in 1..(i - 1) : seg[j] # "="
NameOf(seg) == SubSeq(seg, 1, FirstEq(seg) - 1)
ValueOf(seg) == SubSeq(seg, FirstEq(seg) + 1, Len(seg))

\* C18: _parse_cookies returns, without raising, for every string; its
\* segments are the pieces of the string between the occurrences of "; "; the
\* names of the mapping are the texts before the first "=" of the segments
\* that have one, each mapped to the text after that "=" in the last segment
\* of that name; without such a segment the mapping is empty.
C18_ParseCookies ==
    Returned("parse_cookies") =>
        LET cookie_str == probe.arg.cookie_str
            segs == Split(cookie_str, Separator)
            good == { k \in DOMAIN segs : WellFormedSegment(segs[k]) }
        IN  /\ ~probe.out.raised
            /\ JoinSegments(segs) = cookie_str
            /\ \A k \in DOMAIN segs : ~Contains(segs[k], Separator)
            /\ DOMAIN probe.out.val = { NameOf(segs[k]) : k \in good }
            /\ \A k \in good :
                  (\A l \in good : l > k => NameOf(segs[l]) # NameOf(segs[k]))
                      => probe.out.val[NameOf(segs[k])] = ValueOf(segs[k])
            /\ good = {} => DOMAIN probe.out.val = {}

\* "a=a; a=; a" was parsed: the second a overwrites the first, the segment
\* without "=" is skipped
C18_Witness ==
    /\ Returned("parse_cookies")
    /\ probe.arg.cookie_str = <<"a", "=", "a", ";", " ", "a", "=", ";", " ", "a">>
    /\ DOMAIN probe.out.val = { <<"a">> }
    /\ probe.out.val[<<"a">>] = <<>>

----------------------------------------------------------------------------
(* Claims about the headers of the client *)

\* C19: no step of sign_in changes the client (base_headers, cookies), whose
\* base_headers never hold a token; every GET is sent with the base_headers
\* and cookies of the client and without a token header, every POST with the
\* base_headers plus the token header and with the same cookies; this also
\* holds for both calls when sign_in is called twice on one client.
C19_HeadersFrame ==
    /\ [][ (pc = "sign_in" /\ pc' = "sign_in") => api' = api ]_vars
    /\ [](InSignIn =>
             /\ "token" \notin DOMAIN api.base_headers
             /\ \A k \in DOMAIN log :
                   (log[k].acct = idx /\ log[k].ev \in {"GET", "POST"}) =>
                       log[k].info.cookies = api.cookies)
    /\ [](\A k \in DOMAIN log :
             /\ log[k].ev = "GET" => "token" \notin DOMAIN log[k].info.headers
             /\ log[k].ev = "POST" =>
                   /\ "token" \in DOMAIN log[k].info.headers
                   /\ log[k].info.headers["token"] = log[k].info.token)
    /\ [](Returned("sign_in") =>
             /\ probe.out.val.client = probe.arg.client
             /\ \A k \in DOMAIN probe.out.val.sent :
                   LET q == probe.out.val.sent[k] IN
                   /\ q.cookies = probe.arg.client.cookies
                   /\ q.method = "GET" => q.headers = probe.arg.client.base_headers
                   /\ q.method = "POST" =>
                         /\ DOMAIN q.headers = DOMAIN probe.arg.client.base_headers \cup {"token"}
                         /\ \A x \in DOMAIN probe.arg.client.base_headers :
                               q.headers[x] = probe.arg.client.base_headers[x])

\* two calls of sign_in on one client have each sent their GET and their POST
C19_Witness ==
    /\ Returned("sign_in")
    /\ Len(probe.out.val.sent) = 4
    /\ probe.out.val.sent[2].method = "POST"
    /\ probe.out.val.sent[3].method = "GET"
    /\ "token" \notin DOMAIN probe.out.val.sent[3].headers


====
